---- MODULE Spec2Model ----
(***************************************************************************)
(* Model of src/minesweeper.py: the Minesweeper board (mine placement and  *)
(* neighbour counting), the Sentence class and the MinesweeperAI           *)
(* knowledge-based inference engine.                                       *)
(*                                                                         *)
(* The engine object is the record `self`; a Sentence object is a record   *)
(* [cells, count]; the knowledge base is the Python list self.knowledge,   *)
(* modelled as a sequence in list order.  The while loop of add_knowledge   *)
(* is modelled by its position `pc`: one step for lines 230-252 (harvest,  *)
(* propagate, drop empty sentences) and one for lines 254-263 (pairwise    *)
(* subset derivation and the loop test).                                   *)
(***************************************************************************)
EXTENDS Integers, Sequences, FiniteSets

\* self.height: the engine is built for boards of two rows; the width is
\* the dimension that is explored.
Height == 2
\* Widest board and largest number of mines explored.
Width == 3
MaxMines == 2

VARIABLES
    board,      \* Minesweeper.mines: the set of cells holding a mine
    self,       \* MinesweeperAI: moves_made, mines, safes, knowledge
    pc,         \* position of the caller inside the engine
    new_data,   \* local flag of add_knowledge's while loop
    ij,         \* locals (i, j) of make_random_move's while loop
    ret,        \* value returned by the last query
    marked,     \* mark_mine or mark_safe has been called directly
    honest      \* every direct mark_mine / mark_safe call agreed with the board

vars == <<board, self, pc, new_data, ij, ret, marked, honest>>

\* Python's None
None == <<>>

\* All in-bounds cells (row, column), 0-based as in the source.
Cells == (0 .. Height - 1) \X (0 .. Width - 1)

\* `i in range(0, height) and j in range(0, width)`
InBounds(c) == c[1] \in 0 .. Height - 1 /\ c[2] \in 0 .. Width - 1

\* The 3x3 block range(cell[0]-1, cell[0]+2) x range(cell[1]-1, cell[1]+2)
Block(cell) == (cell[1] - 1 .. cell[1] + 1) \X (cell[2] - 1 .. cell[2] + 1)

\* Minesweeper.nearby_mines
nearby_mines(b, cell) ==
    Cardinality({c \in Block(cell) : c # cell /\ InBounds(c) /\ c \in b})

\* Sentence.__init__
Sentence(cells, count) == [cells |-> cells, count |-> count]

\* Sentence.known_mines
known_mines(s) ==
    IF s.count = Cardinality(s.cells) /\ s.count # 0 THEN s.cells ELSE {}

\* Sentence.known_safes
known_safes(s) ==
    IF s.count = 0 THEN s.cells ELSE {}

\* Sentence.mark_mine that forgets `self.count -= 1`
Sentence_mark_mine_keeps_count(s, cell) ==
    IF cell \in s.cells
    THEN [cells |-> s.cells \ {cell}, count |-> s.count]
    ELSE s

\* Sentence.mark_mine
Sentence_mark_mine(s, cell) ==
    IF cell \in s.cells
    THEN [cells |-> s.cells \ {cell}, count |-> s.count - 1]
    ELSE s

\* Sentence.mark_safe that also decrements the count, as mark_mine does
Sentence_mark_safe_decrements(s, cell) ==
    IF cell \in s.cells
    THEN [cells |-> s.cells \ {cell}, count |-> s.count - 1]
    ELSE s

\* Sentence.mark_safe
Sentence_mark_safe(s, cell) ==
    IF cell \in s.cells
    THEN [cells |-> s.cells \ {cell}, count |-> s.count]
    ELSE s

\* MinesweeperAI.mark_mine
mark_mine(ai, cell) ==
    [ai EXCEPT !.mines = @ \cup {cell},
               !.knowledge = [k \in DOMAIN @ |-> Sentence_mark_mine(@[k], cell)]]

\* MinesweeperAI.mark_safe that records the cell but leaves the sentences alone
mark_safe_no_propagation(ai, cell) ==
    [ai EXCEPT !.safes = @ \cup {cell}]

\* MinesweeperAI.mark_safe
mark_safe(ai, cell) ==
    [ai EXCEPT !.safes = @ \cup {cell},
               !.knowledge = [k \in DOMAIN @ |-> Sentence_mark_safe(@[k], cell)]]

\* `for mine in mine_cells: self.mark_mine(mine)`
RECURSIVE mark_mines(_, _)
mark_mines(ai, cs) ==
    IF cs = {} THEN ai
    ELSE LET c == CHOOSE x \in cs : TRUE
         IN  mark_mines(mark_mine(ai, c), cs \ {c})

\* `for safe in safe_cells: self.mark_safe(safe)`
RECURSIVE mark_safes(_, _)
mark_safes(ai, cs) ==
    IF cs = {} THEN ai
    ELSE LET c == CHOOSE x \in cs : TRUE
         IN  mark_safes(mark_safe(ai, c), cs \ {c})

\* `x in self.knowledge` (list membership by Sentence.__eq__)
InKnowledge(s, kn) == \E k \in DOMAIN kn : kn[k] = s

\* add_knowledge that lacks the bounds test of line 220
add_sentence_no_bounds(ai, cell, count) ==
    LET a1 == mark_safe([ai EXCEPT !.moves_made = @ \cup {cell}], cell)
        neighbors == {c \in Block(cell) :
                         c \notin a1.safes /\ c \notin a1.mines}
        cnt == count - Cardinality({c \in Block(cell) :
                                       c \notin a1.safes /\ c \in a1.mines})
    IN  [a1 EXCEPT !.knowledge = Append(@, Sentence(neighbors, cnt))]

\* add_knowledge that decrements the count for a known mine but lacks the
\* `continue`, so the mine stays in the new sentence
add_sentence_keeps_mines(ai, cell, count) ==
    LET a1 == mark_safe([ai EXCEPT !.moves_made = @ \cup {cell}], cell)
        neighbors == {c \in Block(cell) : c \notin a1.safes /\ InBounds(c)}
        cnt == count - Cardinality({c \in Block(cell) :
                                       c \notin a1.safes /\ c \in a1.mines})
    IN  [a1 EXCEPT !.knowledge = Append(@, Sentence(neighbors, cnt))]

\* Steps 1-3 of add_knowledge (lines 198-227): record the move, mark the
\* cell safe, build the sentence of the unclassified in-bounds neighbours
\* and append it.
add_sentence(ai, cell, count) ==
    LET a1 == mark_safe([ai EXCEPT !.moves_made = @ \cup {cell}], cell)
        neighbors == {c \in Block(cell) :
                         c \notin a1.safes /\ c \notin a1.mines /\ InBounds(c)}
        cnt == count - Cardinality({c \in Block(cell) :
                                       c \notin a1.safes /\ c \in a1.mines})
    IN  [a1 EXCEPT !.knowledge = Append(@, Sentence(neighbors, cnt))]

\* Step 4 of one pass (lines 232-252): collect known mines and safes from
\* every sentence, mark them, drop the empty sentences.
mine_cells(kn) == UNION {known_mines(kn[k]) : k \in DOMAIN kn}
safe_cells(kn) == UNION {known_safes(kn[k]) : k \in DOMAIN kn}

\* a pass that does not drop the empty sentences
harvest_keeps_empty(ai) ==
    mark_safes(mark_mines(ai, mine_cells(ai.knowledge)), safe_cells(ai.knowledge))

harvest(ai) ==
    LET a1 == mark_mines(ai, mine_cells(ai.knowledge))
        a2 == mark_safes(a1, safe_cells(ai.knowledge))
    IN  [a2 EXCEPT !.knowledge = SelectSeq(@, LAMBDA s : s # Sentence({}, 0))]

\* derivation over itertools.combinations: only the pairs with a before b
RECURSIVE derive_combinations(_, _, _)
derive_combinations(snap, kn, p) ==
    LET n == Len(snap)
    IN  IF n < 2 \/ p >= n * (n - 1) THEN kn
        ELSE LET a == (p \div (n - 1)) + 1
                 r == (p % (n - 1)) + 1
                 b == IF r >= a THEN r + 1 ELSE r
                 new_sentence == Sentence(snap[b].cells \ snap[a].cells,
                                          snap[b].count - snap[a].count)
             IN  IF a < b /\ snap[a].cells \subseteq snap[b].cells
                    /\ ~InKnowledge(new_sentence, kn)
                 THEN derive_combinations(snap, Append(kn, new_sentence), p + 1)
                 ELSE derive_combinations(snap, kn, p + 1)

\* Step 5 of one pass (lines 254-263): itertools.permutations(knowledge, 2)
\* walks the ordered pairs of distinct positions of a snapshot of the list
\* in lexicographic order; p numbers the pairs from 0.
RECURSIVE derive(_, _, _)
derive(snap, kn, p) ==
    LET n == Len(snap)
    IN  IF n < 2 \/ p >= n * (n - 1) THEN kn
        ELSE LET a == (p \div (n - 1)) + 1
                 r == (p % (n - 1)) + 1
                 b == IF r >= a THEN r + 1 ELSE r
                 new_sentence == Sentence(snap[b].cells \ snap[a].cells,
                                          snap[b].count - snap[a].count)
             IN  IF snap[a].cells \subseteq snap[b].cells
                    /\ ~InKnowledge(new_sentence, kn)
                 THEN derive(snap, Append(kn, new_sentence), p + 1)
                 ELSE derive(snap, kn, p + 1)

\* make_safe_move that forgets to exclude the moves already made
safe_moves_all(ai) == ai.safes

\* MinesweeperAI.make_safe_move: the cells random.choice may return
safe_moves(ai) == ai.safes \ ai.moves_made

\* MinesweeperAI.make_random_move: the test that ends the loop
random_ok(ai, c) == c \notin ai.moves_made /\ c \notin ai.mines

----------------------------------------------------------------------------

\* Minesweeper.__init__ places the mines; MinesweeperAI.__init__ starts empty.
Init ==
    /\ board \in {b \in SUBSET Cells : Cardinality(b) <= MaxMines}
    /\ self = [moves_made |-> {}, mines |-> {}, safes |-> {}, knowledge |-> <<>>]
    /\ pc = "idle"
    /\ new_data = FALSE
    /\ ij = None
    /\ ret = None
    /\ marked = FALSE
    /\ honest = TRUE

\* add_knowledge(cell, count) up to the loop head, called as the game loop
\* does: cell is not a mine and count is the board's neighbour count.  The
\* engine is followed up to the first direct mark call that contradicts the
\* board (`honest` false): no further call is made after it.
AddKnowledge ==
    /\ pc = "idle"
    /\ honest
    /\ \E cell \in Cells \ board :
          self' = add_sentence(self, cell, nearby_mines(board, cell))
    /\ new_data' = TRUE
    /\ pc' = "harvest"
    /\ ij' = None
    /\ ret' = None
    /\ UNCHANGED <<board, marked, honest>>

\* `while new_data:` body, lines 230-252
Harvest ==
    /\ pc = "harvest"
    /\ self' = harvest(self)
    /\ new_data' = (mine_cells(self.knowledge) # {} \/ safe_cells(self.knowledge) # {})
    /\ pc' = "derive"
    /\ UNCHANGED <<board, ij, ret, marked, honest>>

\* a loop test that only looks at the sentences derived in this pass
DeriveForgetsHarvest ==
    /\ pc = "derive"
    /\ LET kn == derive(self.knowledge, self.knowledge, 0)
           nd == Len(kn) > Len(self.knowledge)
       IN  /\ self' = [self EXCEPT !.knowledge = kn]
           /\ new_data' = nd
           /\ pc' = IF nd THEN "harvest" ELSE "idle"
    /\ UNCHANGED <<board, ij, ret, marked, honest>>

\* `while new_data:` body, lines 254-263, and the loop test
Derive ==
    /\ pc = "derive"
    /\ LET kn == derive(self.knowledge, self.knowledge, 0)
           nd == new_data \/ Len(kn) > Len(self.knowledge)
       IN  /\ self' = [self EXCEPT !.knowledge = kn]
           /\ new_data' = nd
           /\ pc' = IF nd THEN "harvest" ELSE "idle"
    /\ UNCHANGED <<board, ij, ret, marked, honest>>

\* make_safe_move
MakeSafeMove ==
    /\ pc = "idle"
    /\ IF safe_moves(self) # {}
       THEN ret' \in safe_moves(self)
       ELSE ret' = None
    /\ ij' = None
    /\ UNCHANGED <<board, self, pc, new_data, marked, honest>>

\* make_random_move is entered
MakeRandomMove ==
    /\ pc = "idle"
    /\ pc' = "random"
    /\ ij' = None
    /\ ret' = None
    /\ UNCHANGED <<board, self, new_data, marked, honest>>

\* one iteration of `while True:` in make_random_move
RandomDraw ==
    /\ pc = "random"
    /\ \E c \in Cells :
          /\ ij' = c
          /\ IF random_ok(self, c)
             THEN pc' = "idle" /\ ret' = c
             ELSE pc' = "random" /\ ret' = ret
    /\ UNCHANGED <<board, self, new_data, marked, honest>>

Next ==
    \/ AddKnowledge
    \/ Harvest
    \/ Derive
    \/ MakeSafeMove
    \/ MakeRandomMove
    \/ RandomDraw

Spec == Init /\ [][Next]_vars

\* The loops of add_knowledge and make_random_move keep running.
FairSpec ==
    Spec /\ WF_vars(Harvest) /\ WF_vars(Derive) /\ WF_vars(RandomDraw)

\* MinesweeperAI.mark_mine called directly, between two engine calls
MarkMine ==
    /\ pc = "idle"
    /\ honest
    /\ \E cell \in Cells :
          /\ self' = mark_mine(self, cell)
          /\ honest' = (honest /\ cell \in board)
    /\ marked' = TRUE
    /\ UNCHANGED <<board, pc, new_data, ij, ret>>

\* MinesweeperAI.mark_safe called directly, between two engine calls
MarkSafe ==
    /\ pc = "idle"
    /\ honest
    /\ \E cell \in Cells :
          /\ self' = mark_safe(self, cell)
          /\ honest' = (honest /\ cell \notin board)
    /\ marked' = TRUE
    /\ UNCHANGED <<board, pc, new_data, ij, ret>>

NextMark ==
    \/ AddKnowledge
    \/ Harvest
    \/ Derive
    \/ MarkMine
    \/ MarkSafe

MarkSpec == Init /\ [][NextMark]_vars

----------------------------------------------------------------------------
\* Shorthands used by the properties below.

Knowledge == self.knowledge

\* every cell of the board is already played or a known mine
Exhausted == \A c \in Cells : c \in self.moves_made \/ c \in self.mines

\* positions a, b hold distinct list entries with cells(a) a subset of cells(b)
SubsetPair(kn, a, b) == a # b /\ kn[a].cells \subseteq kn[b].cells

Difference(kn, a, b) ==
    [cells |-> kn[b].cells \ kn[a].cells, count |-> kn[b].count - kn[a].count]

----------------------------------------------------------------------------
\* C1: every call of add_knowledge terminates: once the fixpoint loop is
\* entered, a pass without change is reached and the call returns.
AddKnowledgeTerminates == (pc \in {"harvest", "derive"}) ~> (pc = "idle")

\* C2: deductions are sound: every cell in self.mines is a mine of the board
\* and no cell in self.safes is a mine of the board.
DeductionsSound ==
    /\ \A c \in self.mines : c \in board
    /\ \A c \in self.safes : c \notin board

\* a call has returned having deduced a mine and a safe cell not yet played
SoundWitness ==
    /\ pc = "idle"
    /\ self.mines # {}
    /\ self.safes \ self.moves_made # {}

\* C3: every sentence of the knowledge base satisfies 0 <= count <= |cells|.
CountsValid ==
    \A k \in DOMAIN Knowledge :
        /\ 0 <= Knowledge[k].count
        /\ Knowledge[k].count <= Cardinality(Knowledge[k].cells)

\* the last sentence was synthesized from a proper subset pair, next to
\* sentences already shrunk by a marked mine
CountsWitness ==
    /\ pc = "harvest"
    /\ self.mines # {}
    /\ Len(Knowledge) >= 3
    /\ \E a, b \in 1 .. Len(Knowledge) - 1 :
          /\ SubsetPair(Knowledge, a, b)
          /\ Knowledge[a].cells # Knowledge[b].cells
          /\ Knowledge[Len(Knowledge)] = Difference(Knowledge, a, b)

\* C4: the knowledge base never holds two sentences with the same cells and
\* the same count.
NoDuplicateSentences ==
    \A a, b \in DOMAIN Knowledge : a # b => Knowledge[a] # Knowledge[b]

\* C5: when add_knowledge has returned, no sentence with count = |cells| > 0
\* has a cell missing from self.mines and no sentence with count = 0 has a
\* cell missing from self.safes.
DeductionsHarvested ==
    pc = "idle" =>
        \A k \in DOMAIN Knowledge :
            /\ (Knowledge[k].count = Cardinality(Knowledge[k].cells)
                /\ Knowledge[k].count > 0) => Knowledge[k].cells \subseteq self.mines
            /\ Knowledge[k].count = 0 => Knowledge[k].cells \subseteq self.safes

\* a call has returned after harvesting safe cells, with a sentence still
\* open (neither all mines nor all safe)
HarvestedWitness ==
    /\ pc = "idle"
    /\ self.safes \ self.moves_made # {}
    /\ \E k \in DOMAIN Knowledge :
          /\ 0 < Knowledge[k].count
          /\ Knowledge[k].count < Cardinality(Knowledge[k].cells)

\* C6: subset difference is applied to completion: a derivation step
\* synthesizes the difference of every subset pair, the following step
\* harvests every sentence that settles its cells, and when add_knowledge
\* has returned the difference of every subset pair is stored and harvested.
DeriveSynthesizes ==
    pc = "derive" =>
        \A a, b \in DOMAIN Knowledge :
            SubsetPair(Knowledge, a, b) =>
                \E k \in DOMAIN self'.knowledge :
                    self'.knowledge[k] = Difference(Knowledge, a, b)

HarvestSettles ==
    pc = "harvest" =>
        \A k \in DOMAIN Knowledge :
            /\ (Knowledge[k].count = Cardinality(Knowledge[k].cells)
                /\ Knowledge[k].count # 0) => Knowledge[k].cells \subseteq self'.mines
            /\ Knowledge[k].count = 0 => Knowledge[k].cells \subseteq self'.safes

DifferencesStored ==
    pc = "idle" =>
        \A a, b \in DOMAIN Knowledge :
            SubsetPair(Knowledge, a, b) =>
                /\ \E k \in DOMAIN Knowledge : Knowledge[k] = Difference(Knowledge, a, b)
                /\ Difference(Knowledge, a, b).count = 0 =>
                       Difference(Knowledge, a, b).cells \subseteq self.safes

SubsetDifferenceComplete ==
    /\ [][DeriveSynthesizes /\ HarvestSettles]_vars
    /\ []DifferencesStored

\* {A,B,C} = 1 and {A,B} = 1 are stored and {C} = 0 has just been
\* synthesized from them, about to be harvested
SubsetDifferenceWitness ==
    /\ pc = "harvest"
    /\ \E a, b \in 1 .. Len(Knowledge) - 1 :
          /\ SubsetPair(Knowledge, a, b)
          /\ Knowledge[a].count = 1
          /\ Knowledge[b].count = 1
          /\ Cardinality(Knowledge[a].cells) = 2
          /\ Cardinality(Knowledge[b].cells) = 3
          /\ Knowledge[Len(Knowledge)] = Difference(Knowledge, a, b)

\* C7: when add_knowledge has returned, no sentence with an empty cell set
\* remains in the knowledge base.
NoEmptySentences ==
    pc = "idle" => \A k \in DOMAIN Knowledge : Knowledge[k].cells # {}

\* a call has returned after sentences were emptied by harvesting, with
\* other sentences still open
NoEmptyWitness ==
    /\ pc = "idle"
    /\ self.safes \ self.moves_made # {}
    /\ Knowledge # <<>>

\* C8: make_random_move called when every cell is played or a known mine
\* returns None.
RandomMoveSignalsNone ==
    (pc = "random" /\ Exhausted) ~> (pc = "idle" /\ ret = None)

\* C9: make_safe_move returns a cell of safes - moves_made when there is
\* one and None otherwise, and changes nothing of the engine.
SafeMoveReadOnly ==
    [][(pc = "idle" /\ pc' = "idle") =>
          /\ self' = self
          /\ IF self.safes \ self.moves_made # {}
             THEN ret' \in self.safes /\ ret' \notin self.moves_made
             ELSE ret' = None]_vars

\* make_safe_move has returned a cell while played cells exist
SafeMoveWitness ==
    /\ pc = "idle"
    /\ ij = None
    /\ ret # None
    /\ self.moves_made # {}

\* C10 as stated: safes and mines are disjoint after any sequence of
\* add_knowledge / mark_mine / mark_safe calls.
SafesMinesDisjoint == self.safes \cap self.mines = {}

\* C10 as amended: safes and mines are disjoint as long as every direct
\* mark_mine call named a mine of the board and every direct mark_safe call
\* a cell without a mine.
HonestSafesMinesDisjoint == honest => self.safes \cap self.mines = {}

\* direct calls were made and the engine has deduced beyond them
HonestWitness ==
    /\ honest
    /\ marked
    /\ pc = "idle"
    /\ self.mines # {}
    /\ self.moves_made # {}
    /\ self.safes \ self.moves_made # {}

\* C11: add_knowledge(cell, 0) classifies the whole neighbourhood: when the
\* call has returned, every in-bounds neighbour of a cell that was revealed
\* with count 0 is in self.safes; and no out-of-bounds position is ever in
\* self.safes, self.mines or a sentence.
OnBoard(c) == 0 <= c[1] /\ c[1] < Height /\ 0 <= c[2] /\ c[2] < Width

ZeroCountNeighbourhoodSafe ==
    /\ \A c \in self.safes \cup self.mines : OnBoard(c)
    /\ \A k \in DOMAIN Knowledge : \A c \in Knowledge[k].cells : OnBoard(c)
    /\ pc = "idle" =>
          \A cell \in self.moves_made :
              nearby_mines(board, cell) = 0 =>
                  \A i \in cell[1] - 1 .. cell[1] + 1 :
                      \A j \in cell[2] - 1 .. cell[2] + 1 :
                          OnBoard(<<i, j>>) => <<i, j>> \in self.safes

\* add_knowledge((0,0), 0) has returned as the only call so far, on a board
\* with a mine elsewhere: the three neighbours of the corner are safe
ZeroCountWitness ==
    /\ pc = "idle"
    /\ board # {}
    /\ self.moves_made = {<<0, 0>>}
    /\ {<<0, 1>>, <<1, 0>>, <<1, 1>>} \subseteq self.safes

\* C12: no sentence of the knowledge base mentions a classified cell: the
\* cells of every stored sentence are disjoint from self.safes and from
\* self.mines, after the append, after every propagation and after every
\* derivation, hence also when add_knowledge has returned.
SentencesUnclassified ==
    \A k \in DOMAIN Knowledge :
        /\ Knowledge[k].cells \cap self.safes = {}
        /\ Knowledge[k].cells \cap self.mines = {}

\* a call has returned leaving a sentence shrunk by a later reveal next to
\* a newer sentence and a synthesized one
UnclassifiedWitness ==
    /\ pc = "idle"
    /\ Cardinality(self.moves_made) >= 2
    /\ Len(Knowledge) >= 3

====
